---- MODULE Spec2Model ----
(***************************************************************************)
(* Model of src/src/train_satellites.py: the training orchestration script *)
(* (argument parsing, module-level log-directory set-up, main(), train(),  *)
(* validate(), save_checkpoint() and AverageMeter).                        *)
(*                                                                         *)
(* Losses are floating point in the program.  Here a batch loss is an      *)
(* integer and every mean is the exact fraction <<numerator, denominator>> *)
(* in lowest terms, compared by cross multiplication.                      *)
(*                                                                         *)
(* One action is one step of the script; train() and validate() take one   *)
(* action per iteration of their loop.  save_checkpoint is split where the *)
(* file system changes: torch.save and shutil.copyfile open their          *)
(* destination for writing (which truncates it) and write it in place, so  *)
(* each is an "open" step followed by a "written" step.  The process can   *)
(* be terminated between any two steps (Kill) and the script started again *)
(* on the files it left (Restart).  The variable trace is history only:    *)
(* no action of the script reads it.                                       *)
(*                                                                         *)
(* Specifications: Spec (runs, terminations and restarts on one file       *)
(* system), SpecLog (one run, the logging flags and --print-freq free),    *)
(* SpecTrain (one training run that nothing interrupts, with fairness),    *)
(* SpecMeter (the AverageMeter on its own and in the passes of a run) and  *)
(* SpecScheduler (the ReduceLROnPlateau of main on its own).               *)
(***************************************************************************)
EXTENDS Integers, Sequences, FiniteSets, TLC

\* ------------------------------------------------------------------ bounds
\* largest ordinary batch loss the criterion returns in the model
MaxLoss == 2
\* largest value of --epochs
MaxEpochs == 2
\* largest dataset (number of image/mask pairs) get_train_dataset returns
MaxItems == 6
\* largest batch loss the criterion returns in a training pass
MaxTrainLoss == 1
\* number of process runs (a run ends by return, exception or termination)
MaxRuns == 2
\* largest value of --print-freq
MaxPrintFreq == 2
\* largest number of updates of an AverageMeter used on its own, and the largest
\* weight n of such an update
MaxUpdates == 3
MaxWeight == 2
\* largest number of steps of a ReduceLROnPlateau used on its own
MaxSchedulerSteps == 40
\* value of --batch-size
BatchSize == 2

\* ------------------------------------------------------ program constants
\* best_val_loss = 100 (module level)
InitBestValLoss == 100

\* --print-freq (default)
PrintFreq == 10

\* learning rates are counted in units of 1e-8: --lr (default 0.1), and the
\* arguments of ReduceLROnPlateau: min_lr = 1e-7, eps = 1e-8 (the default of the
\* class), factor = 0.1 = 1 / FactorInv, patience = 4, threshold = 1e-3 =
\* 1 / ThresholdInv (mode 'min', threshold_mode 'rel' and cooldown 0, the defaults)
Lr == 10000000
MinLr == 10
Eps == 1
FactorInv == 10
Patience == 4
ThresholdInv == 1000

LatestPath == "weights/test_model_checkpoint.pth.tar"
BestPath == "weights/test_model_best.pth.tar"

\* identifiers given on the command line
KnownArchs == {"linknet34", "unet11"}
KnownOptimizers == {"adam", "rmsprop"}
ArchIds == {"linknet34", "unet11", "linknet34_v2", "not_a_real_model"}
OptimizerIds == {"adam", "rmsprop", "adamax", "sgd"}

\* ------------------------------------------------------------- fractions
RECURSIVE GCD(_, _)
GCD(a, b) == IF b = 0 THEN a ELSE GCD(b, a % b)

\* the float a / b, b > 0, as a fraction in lowest terms
Frac(a, b) == LET g == GCD(a, b) IN IF g = 0 THEN <<0, 1>> ELSE <<a \div g, b \div g>>

\* x < y on floats
Less(x, y) == x[1] * y[2] < y[1] * x[2]

\* min(x, y) as Python computes it: y if y < x else x
Min(x, y) == IF Less(y, x) THEN y ELSE x

\* str.startswith
StartsWith(s, p) == Len(s) >= Len(p) /\ SubSeq(s, 1, Len(p)) = p

\* ------------------------------------------------------------ data loader
\* train_test_split(test_size=0.2): the validation part is ceil(0.2 * n)
ValSize(n) == (n + 4) \div 5
TrainSize(n) == n - ValSize(n)

\* number of batches of a DataLoader over n items (the last may be smaller)
NumBatches(n) == (n + BatchSize - 1) \div BatchSize

\* input.size(0) of batch k (from 0) of a DataLoader over n items
BatchLen(n, k) == IF (k + 1) * BatchSize <= n THEN BatchSize ELSE n - k * BatchSize

\* the values criterion(output, target) takes in the model: in validate(), and
\* in train()
LossValues == (1..MaxLoss) \cup {InitBestValLoss}
TrainLossValues == 1..MaxTrainLoss

\* the sizes of the dataset get_train_dataset returns in the model
DatasetSizes == {MaxItems - 1, MaxItems}

\* ---------------------------------------------------------- AverageMeter
\* AverageMeter.reset
MeterReset == [val |-> 0, avg |-> <<0, 1>>, sum |-> 0, count |-> 0]

\* faulty variant of MeterUpdate: the weight n is not used
MeterUpdateUnweighted(m, v, n) ==
    [val |-> v, sum |-> m.sum + v, count |-> m.count + 1,
     avg |-> Frac(m.sum + v, m.count + 1)]

\* AverageMeter.update(val, n) raises ZeroDivisionError: self.sum / self.count
\* with self.count = 0 (line 401)
MeterUpdateRaises(m, v, n) == m.count + n = 0

\* the meter an update that raised leaves: lines 398-400 were executed
MeterUpdateRaised(m, v, n) ==
    [val |-> v, sum |-> m.sum + v * n, count |-> m.count + n, avg |-> m.avg]

\* AverageMeter.update(val, n)
MeterUpdate(m, v, n) ==
    [val |-> v, sum |-> m.sum + v * n, count |-> m.count + n,
     avg |-> Frac(m.sum + v * n, m.count + n)]

\* ----------------------------------------------------- ReduceLROnPlateau
\* the scheduler as constructed: best = inf (the fraction 1 / 0)
NoPlateau == [best |-> <<1, 0>>, num_bad_epochs |-> 0]

\* is_better(a, best) in mode 'min' with the relative threshold:
\* a < best * (1 - threshold)
IsBetter(a, b) == a[1] * b[2] * ThresholdInv < b[1] * (ThresholdInv - 1) * a[2]

\* num_bad_epochs after the comparison of step(metrics)
NumBad(s, metrics) == IF IsBetter(metrics, s.best) THEN 0 ELSE s.num_bad_epochs + 1

\* step(metrics) reduces the learning rate
Reduces(s, metrics) == NumBad(s, metrics) > Patience

\* the scheduler after step(metrics); cooldown is 0, so the scheduler is never
\* in cooldown
PlateauStep(s, metrics) ==
    [best |-> IF IsBetter(metrics, s.best) THEN metrics ELSE s.best,
     num_bad_epochs |-> IF Reduces(s, metrics) THEN 0 ELSE NumBad(s, metrics)]

\* faulty variant of ReduceLr: min_lr is not looked at
ReduceLrNoFloor(lr) == lr \div FactorInv

\* _reduce_lr: new_lr = max(old_lr * factor, min_lr), set when
\* old_lr - new_lr > eps
ReduceLr(lr) ==
    LET new_lr == IF lr >= MinLr * FactorInv THEN lr \div FactorInv ELSE MinLr
    IN  IF lr - new_lr > Eps THEN new_lr ELSE lr

\* ------------------------------------------------------------ checkpoints
NoStateDict == [init |-> 0, steps |-> 0]
NoFile == [st |-> "absent", epoch |-> 0, arch |-> "", state_dict |-> NoStateDict,
           best_val_loss |-> <<0, 1>>]
\* a file opened for writing and not yet completely written
TornFile == [st |-> "partial", epoch |-> 0, arch |-> "", state_dict |-> NoStateDict,
             best_val_loss |-> <<0, 1>>]
\* the file torch.save(state, filename) leaves when it completes
FullFile(state) == [st |-> "full", epoch |-> state.epoch, arch |-> state.arch,
                    state_dict |-> state.state_dict,
                    best_val_loss |-> state.best_val_loss]

VARIABLES
    args,                 \* the parsed command line
    pc,                   \* position of the process in the script
    run,                  \* number of the running (or last) process
    logdir,               \* tb_logs/<lognumber>/ exists
    latest,               \* weights/<lognumber>_checkpoint.pth.tar
    best,                 \* weights/<lognumber>_best.pth.tar
    data,                 \* sizes of the loaded and split dataset
    model,                \* model.state_dict()
    optimizer,            \* the optimizer and the calls made on it
    scheduler,            \* ReduceLROnPlateau: the epochs step() was called for
    plateau,              \* ReduceLROnPlateau: best and num_bad_epochs
    best_val_loss,        \* global best_val_loss
    train_minib_counter,  \* global train_minib_counter
    valid_minib_counter,  \* global valid_minib_counter
    epoch,                \* loop variable of main
    train_loss,           \* local of main
    val_loss,             \* local of main
    is_best,              \* local of main
    losses,               \* AverageMeter of the running pass
    i,                    \* batch index of the running pass
    loaded,               \* the checkpoint torch.load returned in this run
    trace                 \* what this run has done so far (history)

vars == <<args, pc, run, logdir, latest, best, data, model, optimizer, scheduler,
          plateau,
          best_val_loss, train_minib_counter, valid_minib_counter, epoch,
          train_loss, val_loss, is_best, losses, i, loaded, trace>>

files == <<logdir, latest, best>>
counters == <<train_minib_counter, valid_minib_counter>>
locals == <<epoch, train_loss, val_loss, is_best, losses, i>>

\* os.path.isfile / the content of a path
ReadFile(path) == IF path = LatestPath THEN latest
                  ELSE IF path = BestPath THEN best ELSE NoFile

NoOptimizer == [kind |-> "", lr |-> 0, zero_grads |-> 0, backwards |-> 0, steps |-> 0]

\* history of one run: the epochs whose train and validate pass returned, the
\* 'epoch' fields saved, the epochs that copied to the best file, the files at
\* the start of the run and at the start of its current epoch (of the run, as
\* long as no epoch has started), the outcome of the resume step, the lowest
\* validation loss of the epochs before the current one (<<>> when none), the
\* calls made on the logger (which call, tag, step, and the batch index it was
\* made at), the (value, weight) pairs the AverageMeter of the running pass was
\* updated with, the number of scheduler steps since the step that last changed
\* the scheduler's best, the exception raised and the position the process
\* ended at
NoTrace == [train |-> <<>>, validate |-> <<>>, saved |-> <<>>, best_saved |-> <<>>,
            run_files |-> <<FALSE, NoFile, NoFile>>,
            epoch_files |-> <<NoFile, NoFile>>,
            resume |-> "", val_before |-> <<>>,
            log |-> <<>>, updates |-> <<>>, stale |-> 0, error |-> "", at |-> ""]

\* the memory of a process that has just parsed its arguments (lines 73-79)
Fresh(a) ==
    /\ args = a
    /\ pc = "start"
    /\ data = [n_train |-> 0, n_val |-> 0]
    /\ model = NoStateDict
    /\ optimizer = NoOptimizer
    /\ scheduler = <<>>
    /\ plateau = NoPlateau
    /\ best_val_loss = <<InitBestValLoss, 1>>
    /\ train_minib_counter = 0
    /\ valid_minib_counter = 0
    /\ epoch = 0
    /\ train_loss = <<0, 1>>
    /\ val_loss = <<0, 1>>
    /\ is_best = FALSE
    /\ losses = MeterReset
    /\ i = 0
    /\ loaded = NoFile

\* the command lines of the model
Resumes == {"", LatestPath}
\* the command lines of the model: the defaults of the parser (lines 38-71),
\* with --epochs, --resume, --evaluate and --tensorboard free and at most one
\* of --arch and --optimizer given
DefaultArch == "linknet34"
DefaultOptimizer == "adam"
ArgSet == {a \in [arch : ArchIds, optimizer : OptimizerIds, evaluate : BOOLEAN,
                  resume : Resumes, start_epoch : {0}, epochs : 0..MaxEpochs,
                  tensorboard : BOOLEAN, tensorboard_images : {FALSE},
                  print_freq : {PrintFreq}, lr : {Lr}] :
              a.arch = DefaultArch \/ a.optimizer = DefaultOptimizer}

Init ==
    /\ \E a \in ArgSet : Fresh(a)
    /\ run = 1
    /\ logdir = FALSE
    /\ latest = NoFile
    /\ best = NoFile
    /\ trace = NoTrace

Running == pc \notin {"done", "failed", "killed"}

\* an uncaught exception ends the process
Raise(error) ==
    /\ pc' = "failed"
    /\ trace' = [trace EXCEPT !.error = error, !.at = pc]

\* ------------------------------------------------- module level, lines 84-92
\* shutil.rmtree of the log directory, then Logger(...), which creates it again,
\* when --tensorboard
ModuleInit ==
    /\ pc = "start"
    /\ logdir' = args.tensorboard
    /\ pc' = "load"
    /\ UNCHANGED <<args, run, latest, best, data, model, optimizer, scheduler, plateau,
                   best_val_loss, counters, locals, loaded, trace>>

\* ------------------------------------------------------ main, lines 98-113
\* get_train_dataset and train_test_split
LoadSplit(sizes) ==
    /\ pc = "load"
    /\ \E n \in sizes :
          data' = [n_train |-> TrainSize(n), n_val |-> ValSize(n)]
    /\ pc' = "arch"
    /\ UNCHANGED <<args, run, files, model, optimizer, scheduler, plateau, best_val_loss,
                   counters, locals, loaded, trace>>

LoadAndSplit == LoadSplit(DatasetSizes)

\* ----------------------------------------------------- main, lines 115-125
\* the architecture ids main builds a model for
ArchSupported(arch) == StartsWith(arch, "linknet34") \/ StartsWith(arch, "unet11")

BuildModel ==
    /\ pc = "arch"
    /\ IF ArchSupported(args.arch)
       THEN /\ model' = [init |-> run, steps |-> 0]
            /\ pc' = "resume"
            /\ UNCHANGED trace
       ELSE /\ Raise("Model not supported")
            /\ UNCHANGED model
    /\ UNCHANGED <<args, run, files, data, optimizer, scheduler, plateau, best_val_loss,
                   counters, locals, loaded>>

\* ----------------------------------------------------- main, lines 127-138
\* faulty variant of ResumeEpoch: the loop starts again at the epoch the
\* checkpoint was saved for
ResumeEpochRepeats(checkpoint) == checkpoint.epoch - 1

\* epoch the loop starts from after loading a checkpoint
ResumeEpoch(checkpoint) == checkpoint.epoch

\* best_val_loss after loading a checkpoint
ResumeBest(checkpoint) == checkpoint.best_val_loss

\* args.resume is empty: nothing is loaded
ResumeSkip ==
    /\ pc = "resume"
    /\ args.resume = ""
    /\ pc' = "optimizer"
    /\ trace' = [trace EXCEPT !.resume = "none"]
    /\ UNCHANGED <<args, run, files, data, model, optimizer, scheduler, plateau,
                   best_val_loss, counters, locals, loaded>>

\* os.path.isfile(args.resume): torch.load and restore
ResumeLoad ==
    /\ pc = "resume"
    /\ args.resume # ""
    /\ ReadFile(args.resume).st # "absent"
    /\ IF ReadFile(args.resume).st = "full"
       THEN LET checkpoint == ReadFile(args.resume) IN
            /\ loaded' = checkpoint
            /\ args' = [args EXCEPT !.start_epoch = ResumeEpoch(checkpoint)]
            /\ best_val_loss' = ResumeBest(checkpoint)
            /\ model' = checkpoint.state_dict
            /\ pc' = "optimizer"
            /\ trace' = [trace EXCEPT !.resume = "loaded"]
       ELSE \* torch.load raises on a file that is not a complete pickle
            /\ Raise("torch.load")
            /\ UNCHANGED <<args, best_val_loss, model, loaded>>
    /\ UNCHANGED <<run, files, data, optimizer, scheduler, plateau, counters, locals>>

\* faulty variant of ResumeNotFound: a missing checkpoint file is an error
ResumeNotFoundRaises ==
    /\ pc = "resume"
    /\ args.resume # ""
    /\ ReadFile(args.resume).st = "absent"
    /\ pc' = "failed"
    /\ trace' = [trace EXCEPT !.resume = "not found", !.error = "no checkpoint",
                              !.at = pc]
    /\ UNCHANGED <<args, run, files, data, model, optimizer, scheduler, plateau,
                   best_val_loss, counters, locals, loaded>>

\* no file at args.resume: print "no checkpoint found" and go on
ResumeNotFound ==
    /\ pc = "resume"
    /\ args.resume # ""
    /\ ReadFile(args.resume).st = "absent"
    /\ pc' = "optimizer"
    /\ trace' = [trace EXCEPT !.resume = "not found"]
    /\ UNCHANGED <<args, run, files, data, model, optimizer, scheduler, plateau,
                   best_val_loss, counters, locals, loaded>>

\* ----------------------------------------------------- main, lines 178-194
OptimizerKind(name) == IF StartsWith(name, "adam") THEN "Adam"
                       ELSE IF StartsWith(name, "rmsprop") THEN "RMSprop" ELSE ""

BuildOptimizer ==
    /\ pc = "optimizer"
    /\ IF OptimizerKind(args.optimizer) # ""
       THEN /\ optimizer' = [NoOptimizer EXCEPT !.kind = OptimizerKind(args.optimizer),
                                                !.lr = args.lr]
            /\ scheduler' = <<>>
            /\ plateau' = NoPlateau
            /\ pc' = "evaluate"
            /\ UNCHANGED trace
       ELSE /\ Raise("Optimizer not supported")
            /\ UNCHANGED <<optimizer, scheduler, plateau>>
    /\ UNCHANGED <<args, run, files, data, model, best_val_loss, counters, locals,
                   loaded>>

\* ----------------------------------------------------- main, lines 196-200
\* faulty variant of EvaluateOnly: the --evaluate flag is not looked at
EvaluateIgnored(a) == FALSE

\* --evaluate: main runs validate() alone and returns
EvaluateOnly(a) == a.evaluate

\* entering validate(): a new AverageMeter (lines 305-311)
EnterValidate ==
    /\ losses' = MeterReset
    /\ i' = 0
    /\ pc' = "validate"

EvaluateCheck ==
    /\ pc = "evaluate"
    /\ IF EvaluateOnly(args)
       THEN EnterValidate /\ UNCHANGED epoch
       ELSE /\ epoch' = args.start_epoch
            /\ pc' = "loop"
            /\ UNCHANGED <<losses, i>>
    /\ UNCHANGED <<args, run, files, data, model, optimizer, scheduler, plateau,
                   best_val_loss, counters, train_loss, val_loss, is_best, loaded,
                   trace>>

\* for epoch in range(args.start_epoch, args.epochs): the next epoch calls
\* train() (lines 244-251), the end of the range ends main
LoopHead ==
    /\ pc = "loop"
    /\ IF epoch < args.epochs
       THEN /\ losses' = MeterReset
            /\ i' = 0
            /\ pc' = "train"
            /\ trace' = [trace EXCEPT
                   !.updates = <<>>,
                   !.epoch_files = <<latest, best>>,
                   !.val_before =
                       IF trace.validate = <<>> THEN <<>>
                       ELSE IF @ = <<>> THEN <<val_loss>>
                       ELSE <<Min(val_loss, @[1])>>]
       ELSE /\ pc' = "done"
            /\ UNCHANGED <<losses, i, trace>>
    /\ UNCHANGED <<args, run, files, data, model, optimizer, scheduler, plateau,
                   best_val_loss, counters, epoch, train_loss, val_loss, is_best,
                   loaded>>

\* ------------------------------------------- tensorboard, lines 278-367
\* one call on the logger: scalar_summary or image_summary, its tag and its
\* step, made at batch index k of a pass (-1: between the passes); the logged
\* value is not recorded
LogCall(call, tag, step, k) == [call |-> call, tag |-> tag, step |-> step, i |-> k]

\* faulty variant of ScalarStep: the step is the batch index of the pass
ScalarStepBatchIndex(counter, k) == k

\* the step of a batch's scalar_summary: the global counter of the pass
ScalarStep(counter, k) == counter

\* faulty variant of TrainLog: 'train_loss' for the batches the console line
\* is printed for
TrainLogAtCadence(log) ==
    IF args.tensorboard /\ i % args.print_freq = 0
    THEN Append(log, LogCall("scalar", "train_loss",
                             ScalarStep(train_minib_counter, i), i))
    ELSE log

\* train(): 'train_loss' for every batch when --tensorboard
TrainLog(log) ==
    IF args.tensorboard
    THEN Append(log, LogCall("scalar", "train_loss",
                             ScalarStep(train_minib_counter, i), i))
    ELSE log

\* validate(): this batch shows images, masks and predictions
ImagesDue == args.tensorboard_images /\ i % args.print_freq = 0

\* validate(): three image_summary calls, their step is train_minib_counter
ImagesLog(log) ==
    IF ImagesDue
    THEN log \o <<LogCall("image", "images", train_minib_counter, i),
                  LogCall("image", "masks", train_minib_counter, i),
                  LogCall("image", "preds", train_minib_counter, i)>>
    ELSE log

\* validate(): 'valid_loss' for every batch when --tensorboard
ValidateLog(log) ==
    IF args.tensorboard
    THEN Append(log, LogCall("scalar", "valid_loss",
                             ScalarStep(valid_minib_counter, i), i))
    ELSE log

\* main(): the two scalars of the epoch when --tensorboard, their step is epoch + 1
EpochLog(log) ==
    IF args.tensorboard
    THEN log \o <<LogCall("scalar", "train_epoch_loss", epoch + 1, -1),
                  LogCall("scalar", "valid_epoch_loss", epoch + 1, -1)>>
    ELSE log

\* --------------------------------------------------- train, lines 252-299
\* the calls one iteration makes on the optimizer (lines 270-272)
OptimizerCalls(o) == [o EXCEPT !.zero_grads = @ + 1, !.backwards = @ + 1]

\* one iteration of the loop over train_loader, the criterion returning one of
\* the given values
TrainIteration(values) ==
    /\ pc = "train"
    /\ i < NumBatches(data.n_train)
    /\ \E loss \in values :
          /\ losses' = MeterUpdate(losses, loss, BatchLen(data.n_train, i))
          /\ trace' = [trace EXCEPT
                 !.log = TrainLog(@),
                 !.updates = Append(@, <<loss, BatchLen(data.n_train, i)>>)]
    /\ optimizer' = OptimizerCalls(optimizer)
    /\ train_minib_counter' = train_minib_counter + 1
    /\ i' = i + 1
    /\ UNCHANGED <<args, pc, run, files, data, model, scheduler, plateau, best_val_loss,
                   valid_minib_counter, epoch, train_loss, val_loss, is_best,
                   loaded>>

TrainBatch == TrainIteration(TrainLossValues)

\* the data loader, the model or the criterion raises within an iteration
TrainRaise ==
    /\ pc = "train"
    /\ i < NumBatches(data.n_train)
    /\ Raise("train batch")
    /\ UNCHANGED <<args, run, files, data, model, optimizer, scheduler, plateau,
                   best_val_loss, counters, locals, loaded>>

\* train_loader is exhausted: return losses.avg, then main calls validate()
TrainReturn ==
    /\ pc = "train"
    /\ i = NumBatches(data.n_train)
    /\ train_loss' = losses.avg
    /\ trace' = [trace EXCEPT !.train = Append(@, epoch), !.updates = <<>>]
    /\ EnterValidate
    /\ UNCHANGED <<args, run, files, data, model, optimizer, scheduler, plateau,
                   best_val_loss, counters, epoch, val_loss, is_best, loaded>>

\* ------------------------------------------------ validate, lines 312-379
\* one iteration of the loop over val_loader, the criterion returning one of
\* the given values; the name logger is bound at module level under
\* --tensorboard alone (lines 91-92), so the first image_summary of a run
\* without it raises NameError
ValidateIteration(values) ==
    /\ pc = "validate"
    /\ i < NumBatches(data.n_val)
    /\ IF ImagesDue /\ ~args.tensorboard
       THEN /\ Raise("NameError: logger")
            /\ UNCHANGED <<losses, valid_minib_counter, i>>
       ELSE /\ \E loss \in values :
                  /\ losses' = MeterUpdate(losses, loss, BatchLen(data.n_val, i))
                  /\ trace' = [trace EXCEPT
                         !.log = ValidateLog(ImagesLog(@)),
                         !.updates = Append(@, <<loss, BatchLen(data.n_val, i)>>)]
            /\ valid_minib_counter' = valid_minib_counter + 1
            /\ i' = i + 1
            /\ UNCHANGED pc
    /\ UNCHANGED <<args, run, files, data, model, optimizer, scheduler, plateau,
                   best_val_loss, train_minib_counter, epoch, train_loss, val_loss,
                   is_best, loaded>>

ValidateBatch == ValidateIteration(LossValues)

\* faulty variant of ValidateRaise: the exception of an iteration is swallowed
\* and the batch skipped
ValidateRaiseSwallowed ==
    /\ pc = "validate"
    /\ i < NumBatches(data.n_val)
    /\ i' = i + 1
    /\ trace' = [trace EXCEPT !.error = "validate batch", !.at = pc]
    /\ UNCHANGED <<args, pc, run, files, data, model, optimizer, scheduler, plateau,
                   best_val_loss, counters, epoch, train_loss, val_loss, is_best,
                   losses, loaded>>

\* the data loader, the model or the criterion raises within an iteration
ValidateRaise ==
    /\ pc = "validate"
    /\ i < NumBatches(data.n_val)
    /\ Raise("validate batch")
    /\ UNCHANGED <<args, run, files, data, model, optimizer, scheduler, plateau,
                   best_val_loss, counters, locals, loaded>>

\* val_loader is exhausted: return losses.avg to main
ValidateReturn ==
    /\ pc = "validate"
    /\ i = NumBatches(data.n_val)
    /\ val_loss' = losses.avg
    /\ trace' = [trace EXCEPT !.validate = Append(@, epoch)]
    /\ pc' = IF EvaluateOnly(args) THEN "done" ELSE "schedule"
    /\ UNCHANGED <<args, run, files, data, model, optimizer, scheduler, plateau,
                   best_val_loss, counters, epoch, train_loss, is_best, losses, i,
                   loaded>>

\* ----------------------------------------------------- main, lines 209-224
\* scheduler.step(val_loss) and the epoch's tensorboard scalars
SchedulerStep ==
    /\ pc = "schedule"
    /\ scheduler' = Append(scheduler, epoch)
    /\ plateau' = PlateauStep(plateau, val_loss)
    /\ optimizer' = IF Reduces(plateau, val_loss)
                    THEN [optimizer EXCEPT !.lr = ReduceLr(@)]
                    ELSE optimizer
    /\ trace' = [trace EXCEPT
           !.log = EpochLog(@),
           !.stale = IF plateau'.best # plateau.best THEN 0 ELSE @ + 1]
    /\ pc' = "checkpoint"
    /\ UNCHANGED <<args, run, files, data, model, best_val_loss, counters, locals,
                   loaded>>

\* ----------------------------------------------------- main, lines 226-238
\* is_best = val_loss < best_val_loss
IsBest(val, bestSoFar) == Less(val, bestSoFar)

\* faulty variant of CheckpointState: 'epoch' is the index of the epoch
CheckpointStateEpochIndex ==
    [epoch |-> epoch, arch |-> args.arch, state_dict |-> model,
     best_val_loss |-> best_val_loss]

\* the dictionary main passes to save_checkpoint
CheckpointState == [epoch |-> epoch + 1, arch |-> args.arch, state_dict |-> model,
                    best_val_loss |-> best_val_loss]

\* faulty variant of NextEpoch: the range is walked in steps of two
NextEpochSkips ==
    /\ epoch' = epoch + 2
    /\ pc' = "loop"

\* the end of the loop body: the next value of the range
NextEpoch ==
    /\ epoch' = epoch + 1
    /\ pc' = "loop"

\* faulty variant of Checkpoint: best_val_loss is the loss of the last epoch
CheckpointKeepsLast ==
    /\ pc = "checkpoint"
    /\ is_best' = IsBest(val_loss, best_val_loss)
    /\ best_val_loss' = val_loss
    /\ latest' = TornFile
    /\ pc' = "save"
    /\ UNCHANGED <<args, run, logdir, best, data, model, optimizer, scheduler, plateau,
                   counters, epoch, train_loss, val_loss, losses, i, loaded, trace>>

\* is_best and best_val_loss, then save_checkpoint: torch.save opens (and so
\* truncates) the checkpoint file
Checkpoint ==
    /\ pc = "checkpoint"
    /\ is_best' = IsBest(val_loss, best_val_loss)
    /\ best_val_loss' = Min(val_loss, best_val_loss)
    /\ latest' = TornFile
    /\ pc' = "save"
    /\ UNCHANGED <<args, run, logdir, best, data, model, optimizer, scheduler, plateau,
                   counters, epoch, train_loss, val_loss, losses, i, loaded, trace>>

\* ------------------------------------------ save_checkpoint, lines 381-384
\* faulty variant of SaveWrite: the copy to the best file is made whatever
\* is_best is
SaveWriteCopiesAlways ==
    /\ pc = "save"
    /\ latest' = FullFile(CheckpointState)
    /\ trace' = [trace EXCEPT !.saved = Append(@, CheckpointState.epoch)]
    /\ pc' = "copy"
    /\ UNCHANGED <<args, run, logdir, best, data, model, optimizer, scheduler, plateau,
                   best_val_loss, counters, epoch, train_loss, val_loss, is_best,
                   losses, i, loaded>>

\* torch.save writes the state and closes the file
SaveWrite ==
    /\ pc = "save"
    /\ latest' = FullFile(CheckpointState)
    /\ trace' = [trace EXCEPT !.saved = Append(@, CheckpointState.epoch)]
    /\ IF is_best
       THEN pc' = "copy" /\ UNCHANGED epoch
       ELSE NextEpoch
    /\ UNCHANGED <<args, run, logdir, best, data, model, optimizer, scheduler, plateau,
                   best_val_loss, counters, train_loss, val_loss, is_best, losses,
                   i, loaded>>

\* shutil.copyfile opens (and so truncates) the destination
CopyOpen ==
    /\ pc = "copy"
    /\ best' = TornFile
    /\ pc' = "copying"
    /\ UNCHANGED <<args, run, logdir, latest, data, model, optimizer, scheduler, plateau,
                   best_val_loss, counters, locals, loaded, trace>>

\* shutil.copyfile has copied the source and closes the destination
CopyWrite ==
    /\ pc = "copying"
    /\ best' = latest
    /\ trace' = [trace EXCEPT !.best_saved = Append(@, epoch)]
    /\ NextEpoch
    /\ UNCHANGED <<args, run, logdir, latest, data, model, optimizer, scheduler, plateau,
                   best_val_loss, counters, train_loss, val_loss, is_best, losses,
                   i, loaded>>

\* ------------------------------------------------------------ the process
\* the memory of a process that has not run: the module-level values of lines
\* 73-75 and nothing else (also what is left of a terminated process)
NoMemory ==
    /\ data' = [n_train |-> 0, n_val |-> 0]
    /\ model' = NoStateDict
    /\ optimizer' = NoOptimizer
    /\ scheduler' = <<>>
    /\ plateau' = NoPlateau
    /\ best_val_loss' = <<InitBestValLoss, 1>>
    /\ train_minib_counter' = 0
    /\ valid_minib_counter' = 0
    /\ epoch' = 0
    /\ train_loss' = <<0, 1>>
    /\ val_loss' = <<0, 1>>
    /\ is_best' = FALSE
    /\ losses' = MeterReset
    /\ i' = 0
    /\ loaded' = NoFile

\* hard termination of the process, at any point
Kill ==
    /\ Running
    /\ pc' = "killed"
    /\ trace' = [trace EXCEPT !.at = pc]
    /\ NoMemory
    /\ UNCHANGED <<args, run, files>>

\* the same command line is started again on the same file system, now with
\* --resume <the checkpoint file>, with or without --evaluate (lines 73-79)
Restart ==
    /\ ~Running
    /\ run < MaxRuns
    /\ run' = run + 1
    /\ \E e \in BOOLEAN :
          args' = [args EXCEPT !.resume = LatestPath, !.evaluate = e,
                               !.start_epoch = 0]
    /\ pc' = "start"
    /\ NoMemory
    /\ trace' = [NoTrace EXCEPT !.run_files = <<logdir, latest, best>>,
                                !.epoch_files = <<latest, best>>]
    /\ UNCHANGED files

Next ==
    \/ ModuleInit
    \/ LoadAndSplit
    \/ BuildModel
    \/ ResumeSkip
    \/ ResumeLoad
    \/ ResumeNotFound
    \/ BuildOptimizer
    \/ EvaluateCheck
    \/ LoopHead
    \/ TrainBatch
    \/ TrainRaise
    \/ TrainReturn
    \/ ValidateBatch
    \/ ValidateRaise
    \/ ValidateReturn
    \/ SchedulerStep
    \/ Checkpoint
    \/ SaveWrite
    \/ CopyOpen
    \/ CopyWrite
    \/ Kill
    \/ Restart

Spec == Init /\ [][Next]_vars

\* ------------------------------------------- one run, the logging flags free
\* a dataset whose validation part has three batches, the last one shorter
LogDatasetSizes == {5 * (2 * BatchSize + 1)}

\* the command lines with --tensorboard, --tensorboard_images, --print-freq,
\* --evaluate and --epochs free
LogArgSet == [arch : {DefaultArch}, optimizer : {DefaultOptimizer},
              evaluate : BOOLEAN, resume : {""}, start_epoch : {0},
              epochs : 0..MaxEpochs, tensorboard : BOOLEAN,
              tensorboard_images : BOOLEAN, print_freq : 1..MaxPrintFreq,
              lr : {Lr}]

InitLog ==
    /\ \E a \in LogArgSet : Fresh(a)
    /\ run = 1
    /\ logdir = FALSE
    /\ latest = NoFile
    /\ best = NoFile
    /\ trace = NoTrace

\* one process on an empty file system; the collaborators raise nothing and
\* the criterion returns 1 in train() and 1 or 2 in validate()
LoadAndSplitLog == LoadSplit(LogDatasetSizes)
TrainBatchLog == TrainIteration({1})
ValidateBatchLog == ValidateIteration({1, 2})

NextLog ==
    \/ ModuleInit
    \/ LoadAndSplitLog
    \/ BuildModel
    \/ ResumeSkip
    \/ BuildOptimizer
    \/ EvaluateCheck
    \/ LoopHead
    \/ TrainBatchLog
    \/ TrainReturn
    \/ ValidateBatchLog
    \/ ValidateReturn
    \/ SchedulerStep
    \/ Checkpoint
    \/ SaveWrite
    \/ CopyOpen
    \/ CopyWrite

SpecLog == InitLog /\ [][NextLog]_vars

\* --------------------------- the AverageMeter on its own, and in the passes
\* the parser's defaults
DefaultArgs == [arch |-> DefaultArch, optimizer |-> DefaultOptimizer,
                evaluate |-> FALSE, resume |-> "", start_epoch |-> 0,
                epochs |-> 0, tensorboard |-> FALSE, tensorboard_images |-> FALSE,
                print_freq |-> PrintFreq, lr |-> Lr]

\* a caller that has constructed an AverageMeter (position "meter")
InitAccumulator ==
    /\ args = DefaultArgs
    /\ pc = "meter"
    /\ run = 1
    /\ logdir = FALSE
    /\ latest = NoFile
    /\ best = NoFile
    /\ data = [n_train |-> 0, n_val |-> 0]
    /\ model = NoStateDict
    /\ optimizer = NoOptimizer
    /\ scheduler = <<>>
    /\ plateau = NoPlateau
    /\ best_val_loss = <<InitBestValLoss, 1>>
    /\ train_minib_counter = 0
    /\ valid_minib_counter = 0
    /\ epoch = 0
    /\ train_loss = <<0, 1>>
    /\ val_loss = <<0, 1>>
    /\ is_best = FALSE
    /\ losses = MeterReset
    /\ i = 0
    /\ loaded = NoFile
    /\ trace = NoTrace

\* the values and weights the caller passes
MeterValues == 0..MaxLoss
MeterWeights == 0..MaxWeight

\* the caller calls reset()
AccumulatorReset ==
    /\ pc = "meter"
    /\ losses' = MeterReset
    /\ trace' = [trace EXCEPT !.updates = <<>>]
    /\ UNCHANGED <<args, pc, run, files, data, model, optimizer, scheduler, plateau,
                   best_val_loss, counters, epoch, train_loss, val_loss, is_best, i,
                   loaded>>

\* the caller calls update(v, n)
AccumulatorUpdate ==
    /\ pc = "meter"
    /\ Len(trace.updates) < MaxUpdates
    /\ \E v \in MeterValues, n \in MeterWeights :
          IF MeterUpdateRaises(losses, v, n)
          THEN /\ losses' = MeterUpdateRaised(losses, v, n)
               /\ Raise("ZeroDivisionError")
          ELSE /\ losses' = MeterUpdate(losses, v, n)
               /\ trace' = [trace EXCEPT !.updates = Append(@, <<v, n>>)]
               /\ UNCHANGED pc
    /\ UNCHANGED <<args, run, files, data, model, optimizer, scheduler, plateau,
                   best_val_loss, counters, epoch, train_loss, val_loss, is_best, i,
                   loaded>>

InitMeter == InitAccumulator \/ InitLog

NextMeter ==
    \/ AccumulatorReset
    \/ AccumulatorUpdate
    \/ NextLog

SpecMeter == InitMeter /\ [][NextMeter]_vars

\* ------------------------------------ the ReduceLROnPlateau on its own
\* the values of --lr: the default, one above min_lr and one below it (5e-7
\* and 5e-8)
LrValues == {Lr, 5 * MinLr, MinLr \div 2}

\* the validation losses main passes to step(): those of the model, and one
\* that is lower than the largest of them by less than the threshold (99.95)
SchedulerMetrics == {<<v, 1>> : v \in LossValues}
                        \cup {<<InitBestValLoss * 20 - 1, 20>>}

\* a caller that has constructed the optimizer and the scheduler as main does
\* (position "scheduler")
InitScheduler ==
    /\ \E lr \in LrValues :
          /\ args = [DefaultArgs EXCEPT !.lr = lr, !.epochs = MaxSchedulerSteps]
          /\ optimizer = [NoOptimizer EXCEPT !.kind = OptimizerKind(DefaultOptimizer),
                                             !.lr = lr]
    /\ pc = "scheduler"
    /\ run = 1
    /\ logdir = FALSE
    /\ latest = NoFile
    /\ best = NoFile
    /\ data = [n_train |-> 0, n_val |-> 0]
    /\ model = NoStateDict
    /\ scheduler = <<>>
    /\ plateau = NoPlateau
    /\ best_val_loss = <<InitBestValLoss, 1>>
    /\ train_minib_counter = 0
    /\ valid_minib_counter = 0
    /\ epoch = 0
    /\ train_loss = <<0, 1>>
    /\ val_loss = <<0, 1>>
    /\ is_best = FALSE
    /\ losses = MeterReset
    /\ i = 0
    /\ loaded = NoFile
    /\ trace = NoTrace

\* the caller gets the validation loss of the next epoch and calls
\* scheduler.step(val_loss)
SchedulerFeed ==
    /\ pc = "scheduler"
    /\ epoch < args.epochs
    /\ \E metrics \in SchedulerMetrics :
          /\ val_loss' = metrics
          /\ plateau' = PlateauStep(plateau, metrics)
          /\ optimizer' = IF Reduces(plateau, metrics)
                          THEN [optimizer EXCEPT !.lr = ReduceLr(@)]
                          ELSE optimizer
    /\ scheduler' = Append(scheduler, epoch)
    /\ epoch' = epoch + 1
    /\ trace' = [trace EXCEPT
           !.stale = IF plateau'.best # plateau.best THEN 0 ELSE @ + 1]
    /\ UNCHANGED <<args, pc, run, files, data, model, best_val_loss, counters,
                   train_loss, is_best, losses, i, loaded>>

\* the range of epochs is exhausted
SchedulerDone ==
    /\ pc = "scheduler"
    /\ epoch = args.epochs
    /\ pc' = "done"
    /\ UNCHANGED <<args, run, files, data, model, optimizer, scheduler, plateau,
                   best_val_loss, counters, locals, loaded, trace>>

NextScheduler ==
    \/ SchedulerFeed
    \/ SchedulerDone

SpecScheduler == InitScheduler /\ [][NextScheduler]_vars

\* ------------------------------- one training run that nothing interrupts
\* the checkpoint files an earlier training run has left
PriorCheckpoints ==
    {FullFile([epoch |-> k, arch |-> DefaultArch,
               state_dict |-> [init |-> 1, steps |-> 0],
               best_val_loss |-> <<v, 1>>]) : k \in 1..MaxEpochs, v \in 1..MaxLoss}

\* the command lines of a training run: --resume and --epochs free
TrainArgSet == [arch : {DefaultArch}, optimizer : {DefaultOptimizer},
                evaluate : {FALSE}, resume : Resumes, start_epoch : {0},
                epochs : 0..MaxEpochs, tensorboard : {FALSE},
                tensorboard_images : {FALSE}, print_freq : {PrintFreq}, lr : {Lr}]

\* the first run on an empty file system, or a later run on the files of an
\* earlier one
InitTrain ==
    /\ \E a \in TrainArgSet : Fresh(a)
    /\ logdir = FALSE
    /\ \/ run = 1 /\ latest = NoFile
       \/ run = 2 /\ latest \in PriorCheckpoints
    /\ best = latest
    /\ trace = [NoTrace EXCEPT !.run_files = <<logdir, latest, best>>,
                               !.epoch_files = <<latest, best>>]

\* the steps of the script when no collaborator raises and the process is not
\* terminated
NextTrain ==
    \/ ModuleInit
    \/ LoadAndSplit
    \/ BuildModel
    \/ ResumeSkip
    \/ ResumeLoad
    \/ ResumeNotFound
    \/ BuildOptimizer
    \/ EvaluateCheck
    \/ LoopHead
    \/ TrainBatch
    \/ TrainReturn
    \/ ValidateBatch
    \/ ValidateReturn
    \/ SchedulerStep
    \/ Checkpoint
    \/ SaveWrite
    \/ CopyOpen
    \/ CopyWrite

\* a process that is not terminated takes its next step
SpecTrain == InitTrain /\ [][NextTrain]_vars /\ WF_vars(NextTrain)

\* ================================================================== claims
\* the run loaded a checkpoint (it is a resumed run)
Resumed == trace.resume = "loaded"

\* the set of the elements of a sequence
Range(seq) == {seq[k] : k \in 1..Len(seq)}

\* C1: in a TRAIN pass the optimizer's parameter-update step is triggered once
\* per batch, after the batch's loss and before the next batch is fetched, so the
\* number of update steps always equals the number of training batches processed
\* (n steps after a pass over n batches).
C1_UpdateStepPerBatch == optimizer.steps = train_minib_counter

\* C2: in a fresh run the best file is overwritten at the end of an epoch if and
\* only if the epoch's validation loss is strictly lower than the validation loss
\* of every earlier epoch of the run (so the first epoch always overwrites it).
C2_BestIffLowerThanEarlier ==
    (pc = "loop" /\ ~Resumed /\ trace.validate # <<>>) =>
        ((epoch - 1) \in Range(trace.best_saved)
            <=> (trace.val_before = <<>> \/ Less(val_loss, trace.val_before[1])))

\* the sequence a, a + 1, ... of the given length
Consecutive(seq, a) == \A k \in 1..Len(seq) : seq[k] = a + k - 1

\* the number of epochs of range(a, b)
RangeLen(a, b) == IF b > a THEN b - a ELSE 0

\* C3: a run resumed from the checkpoint of epoch k (its epoch field is k + 1)
\* trains and validates exactly the epochs k + 1, ..., end_epoch - 1, each once
\* and in increasing order; its best_val_loss starts at the stored value, and it
\* overwrites the best file only for an epoch whose validation loss is strictly
\* below the stored value.
C3_ResumeContinuity ==
    (Resumed /\ ~args.evaluate /\ pc # "killed") =>
        /\ args.start_epoch = loaded.epoch
        /\ Consecutive(trace.train, loaded.epoch)
        /\ Consecutive(trace.validate, loaded.epoch)
        /\ \A e \in Range(trace.train) : e < args.epochs
        /\ pc = "done" => /\ Len(trace.train) = RangeLen(loaded.epoch, args.epochs)
                          /\ trace.validate = trace.train
        /\ (Running /\ scheduler = <<>>) => best_val_loss = loaded.best_val_loss
        /\ ~Less(loaded.best_val_loss, best_val_loss) \/ ~Running
        /\ pc \in {"copy", "copying"} => Less(val_loss, loaded.best_val_loss)
        /\ (best # trace.run_files[3] /\ best.st = "full") =>
               Less(best.best_val_loss, loaded.best_val_loss)

\* C3 witness: a resumed run that loaded the checkpoint of epoch 0, trained
\* epoch 1 alone, overwrote the best file for it and is done
C3_Witness ==
    /\ pc = "done" /\ Resumed /\ ~args.evaluate
    /\ loaded.epoch = 1 /\ args.epochs = 2
    /\ trace.train = <<1>> /\ trace.best_saved = <<1>>

\* C4: when the architecture or optimizer id is unknown the run fails before any
\* side effect: no file or directory was created or removed, the dataset was not
\* read or split, and no checkpoint was loaded into main or the model.
C4_ConfigErrorBeforeSideEffects ==
    (pc = "failed" /\ trace.error \in {"Model not supported", "Optimizer not supported"})
        => /\ <<logdir, latest, best>> = trace.run_files
           /\ data = [n_train |-> 0, n_val |-> 0]
           /\ loaded = NoFile
           /\ args.start_epoch = 0
           /\ best_val_loss = <<InitBestValLoss, 1>>

\* C5: once the first save of a run has completed, the checkpoint file holds at
\* every later point of the run a complete record of an epoch that was trained
\* and validated, so a resume after termination at that point succeeds.
C5_LatestAlwaysLoadable ==
    (trace.saved # <<>> /\ pc # "failed") =>
        /\ latest.st = "full"
        /\ latest.epoch \in Range(trace.saved)
        /\ (latest.epoch - 1) \in Range(trace.validate)

\* C6: with a resume path configured and no checkpoint at it the run does not
\* abort and goes on as a fresh run: the loop starts at the configured start
\* epoch, best_val_loss keeps its initial value, the model built by this run is
\* not replaced, and the epochs run are those of a run without a resume path.
C6_ResumeNotFoundIsFresh ==
    (trace.resume = "not found") =>
        /\ args.resume # ""
        /\ loaded = NoFile
        /\ pc = "failed" => trace.at # "resume"
        /\ args.start_epoch = 0
        /\ Running => model = [init |-> run, steps |-> 0]
        /\ (Running /\ scheduler = <<>>) => best_val_loss = <<InitBestValLoss, 1>>
        /\ Consecutive(trace.train, 0)
        /\ Consecutive(trace.validate, 0)
        /\ (pc = "done" /\ ~args.evaluate) =>
               Len(trace.train) = RangeLen(0, args.epochs)

\* C6 witness: a run whose resume path held no file trained both of its epochs
C6_Witness ==
    /\ trace.resume = "not found" /\ pc = "done"
    /\ args.epochs = 2 /\ trace.train = <<0, 1>>

\* C7: only the members of the closed sets are accepted as architecture and
\* optimizer ids, and the arch field of a checkpoint is a member of the set.
C7_ClosedSetOfIds ==
    /\ trace.resume # "" => args.arch \in KnownArchs
    /\ optimizer.kind # "" => args.optimizer \in KnownOptimizers
    /\ latest.st = "full" => latest.arch \in KnownArchs
    /\ best.st = "full" => best.arch \in KnownArchs

\* C8: an exception raised in the train or validate pass of an epoch is not
\* caught: the run has failed, nothing was saved for the epoch, both checkpoint
\* files hold what they held when the epoch began (the complete record of the
\* epoch before when this run saved one, nothing when the first run saved none),
\* and the scheduler was not stepped for the epoch.
C8_PassFailureLeavesCheckpoints ==
    /\ trace.error # "" => pc = "failed"
    /\ (pc = "failed" /\ trace.error \in {"train batch", "validate batch"}) =>
          /\ latest = trace.epoch_files[1]
          /\ best = trace.epoch_files[2]
          /\ (epoch + 1) \notin Range(trace.saved)
          /\ epoch \notin Range(trace.best_saved)
          /\ epoch \notin Range(scheduler)
          /\ trace.saved # <<>> => latest.st = "full" /\ latest.epoch = epoch
          /\ trace.saved = <<>> => /\ latest = trace.run_files[2]
                                   /\ best = trace.run_files[3]
          /\ (run = 1 /\ trace.saved = <<>>) => latest = NoFile /\ best = NoFile

\* C8 witness: the validate pass of the second epoch of a run raised, with the
\* first epoch's checkpoint in both files
C8_Witness ==
    /\ pc = "failed" /\ trace.error = "validate batch"
    /\ epoch = 1 /\ trace.saved = <<1>>
    /\ latest.st = "full" /\ best = latest

\* C9: an --evaluate run goes through the set-up, optionally the resume, one
\* validate pass and ends: it runs no train pass, never steps the scheduler,
\* triggers no optimizer call and writes neither checkpoint file, whatever the
\* epoch range.
C9_EvaluateOnly ==
    args.evaluate =>
        /\ pc \in {"start", "load", "arch", "resume", "optimizer", "evaluate",
                   "validate", "done", "failed", "killed"}
        /\ trace.train = <<>>
        /\ Len(trace.validate) <= 1
        /\ pc = "done" => Len(trace.validate) = 1
        /\ scheduler = <<>>
        /\ optimizer.steps = 0 /\ optimizer.zero_grads = 0 /\ optimizer.backwards = 0
        /\ train_minib_counter = 0
        /\ trace.saved = <<>> /\ trace.best_saved = <<>>
        /\ latest = trace.run_files[2] /\ best = trace.run_files[3]

\* C9 witness: an --evaluate run with two epochs configured that loaded a
\* checkpoint is done after its one validate pass
C9_Witness ==
    /\ args.evaluate /\ pc = "done"
    /\ args.epochs = 2 /\ Resumed /\ loaded.epoch = 1
    /\ trace.validate = <<0>> /\ valid_minib_counter > 0

\* C10: after termination at an intermediate step of save_checkpoint the best
\* file holds either entirely the record it held before the save or entirely the
\* record of the epoch being saved.
C10_BestNeverTorn ==
    (pc = "killed" /\ trace.at \in {"save", "copy", "copying"}) =>
        \/ best = trace.epoch_files[2]
        \/ best.st = "full" /\ best = latest

\* --------------------------------------------------------------- logging
\* the tags whose step is train_minib_counter, and valid_minib_counter
TrainCounterTags == {"train_loss", "images", "masks", "preds"}
ValidCounterTags == {"valid_loss"}

\* the number of calls with the tag among the first a - 1 calls on the logger
CallsBefore(a, tag) == Cardinality({b \in 1..(a - 1) : trace.log[b].tag = tag})

\* the batches the run has processed in its train and in its validate passes
InPass(name) == pc = name \/ (pc = "failed" /\ trace.at = name)
TrainBatchesDone ==
    Len(trace.train) * NumBatches(data.n_train) + (IF InPass("train") THEN i ELSE 0)
ValidBatchesDone ==
    Len(trace.validate) * NumBatches(data.n_val) + (IF InPass("validate") THEN i ELSE 0)

\* C11: within one run the steps given to the logger never decrease for either
\* batch counter, over all batches and across epochs: both counters start at 0,
\* are incremented once for every batch their pass processed and are never
\* reset; and no image call is made unless --tensorboard_images is set.
C11_LogStepsMonotone ==
    /\ \A a, b \in 1..Len(trace.log) :
          (/\ a < b
           /\ \/ {trace.log[a].tag, trace.log[b].tag} \subseteq TrainCounterTags
              \/ {trace.log[a].tag, trace.log[b].tag} \subseteq ValidCounterTags)
             => trace.log[a].step <= trace.log[b].step
    /\ \A a \in 1..Len(trace.log) :
          /\ trace.log[a].tag \in {"train_loss", "valid_loss"} =>
                 trace.log[a].step = CallsBefore(a, trace.log[a].tag)
          /\ trace.log[a].call = "image" =>
                 /\ args.tensorboard_images
                 /\ trace.log[a].step = CallsBefore(a, "train_loss")
    /\ pc # "killed" => /\ train_minib_counter = TrainBatchesDone
                        /\ valid_minib_counter = ValidBatchesDone

\* C11 witness: a run with both flags has trained two epochs, has logged a
\* scalar of either counter in the second epoch and images after the first batch
\* of the second validate pass
C11_Witness ==
    /\ pc = "done" /\ args.tensorboard /\ args.tensorboard_images
    /\ trace.train = <<0, 1>>
    /\ \E a, b, c \in 1..Len(trace.log) :
          /\ trace.log[a].tag = "train_loss"
          /\ trace.log[a].step = NumBatches(data.n_train) + 1
          /\ trace.log[b].tag = "valid_loss"
          /\ trace.log[b].step = NumBatches(data.n_val) + 1
          /\ trace.log[c].tag = "preds" /\ trace.log[c].i > 0
          /\ trace.log[c].step = 2 * NumBatches(data.n_train)

\* ------------------------------------------------------- save_checkpoint
\* C12: save_checkpoint always replaces the checkpoint file with the record it
\* is given; with is_best the best file is identical to the checkpoint file
\* after the save, without is_best the best file is what it was before the save
\* (the same content, or still absent); so the best file only ever receives a
\* copy of what the checkpoint file holds at that time.
C12_SaveFrame ==
    /\ [](  (pc = "loop" /\ trace.saved # <<>>) =>
              /\ latest = FullFile([epoch |-> epoch, arch |-> args.arch,
                                    state_dict |-> model,
                                    best_val_loss |-> best_val_loss])
              /\ is_best => best = latest
              /\ ~is_best => best = trace.epoch_files[2]  )
    /\ [][best' # best => (best' = TornFile \/ (best' = latest /\ latest.st = "full"))]_vars

\* C12 witness: the save of the first epoch copied the record to the best file,
\* the save of the second epoch replaced the checkpoint file alone
C12_Witness ==
    /\ pc = "loop" /\ trace.saved = <<1, 2>> /\ trace.best_saved = <<0>>
    /\ ~is_best /\ latest.epoch = 2 /\ best.st = "full" /\ best.epoch = 1

\* ------------------------------------------------------------ the epochs
\* the number of epochs the loop has completed
EpochsDone == IF pc \in {"start", "load", "arch", "resume", "optimizer", "evaluate"}
              THEN 0 ELSE epoch - args.start_epoch

\* the passes, scheduler steps and saves made so far, as counts
Progress == <<Len(trace.train), Len(trace.validate), Len(scheduler), Len(trace.saved)>>

\* C13: a training run that nothing interrupts makes, for every epoch of
\* range(start_epoch, epochs) in increasing order, exactly one train pass, then
\* one validate pass, then one scheduler step with the mean validation loss of
\* that epoch, then one checkpoint save; it ends after max(0, epochs -
\* start_epoch) epochs and makes none of these when start_epoch >= epochs.
C13_EpochSequence ==
    /\ [](LET k == EpochsDone IN
          /\ Consecutive(trace.train, args.start_epoch)
          /\ Consecutive(trace.validate, args.start_epoch)
          /\ Consecutive(scheduler, args.start_epoch)
          /\ Consecutive(trace.saved, args.start_epoch + 1)
          /\ pc = "train" => Progress = <<k, k, k, k>>
          /\ pc = "validate" => Progress = <<k + 1, k, k, k>>
          /\ pc = "schedule" => Progress = <<k + 1, k + 1, k, k>>
          /\ pc \in {"checkpoint", "save"} => Progress = <<k + 1, k + 1, k + 1, k>>
          /\ pc \in {"copy", "copying"} => Progress = <<k + 1, k + 1, k + 1, k + 1>>
          /\ pc \notin {"train", "validate", "schedule", "checkpoint", "save",
                        "copy", "copying"} => Progress = <<k, k, k, k>>
          /\ pc = "done" => k = RangeLen(args.start_epoch, args.epochs))
    /\ [][scheduler' # scheduler =>
             /\ val_loss = losses.avg /\ i = NumBatches(data.n_val)
             /\ plateau' = PlateauStep(plateau, val_loss)]_vars
    /\ <>(pc = "done")

\* C13 witness: a run resumed from the checkpoint of the first epoch is done
\* after the one epoch that was left
C13_Witness ==
    /\ pc = "done" /\ Resumed /\ args.start_epoch = 1 /\ args.epochs = 2
    /\ Progress = <<1, 1, 1, 1>> /\ scheduler = <<1>> /\ trace.saved = <<2>>

\* C13 witness of the empty range: a run resumed from the checkpoint of the last
\* epoch is done without a pass
C13_WitnessEmptyRange ==
    /\ pc = "done" /\ Resumed /\ args.start_epoch >= args.epochs
    /\ Progress = <<0, 0, 0, 0>>

\* ---------------------------------------------------------- AverageMeter
RECURSIVE SumVW(_)
\* v1 * w1 + ... + vn * wn, w1 + ... + wn and v1 + ... + vn of the updates
SumVW(u) == IF u = <<>> THEN 0 ELSE u[1][1] * u[1][2] + SumVW(Tail(u))
RECURSIVE SumW(_)
SumW(u) == IF u = <<>> THEN 0 ELSE u[1][2] + SumW(Tail(u))
RECURSIVE SumV(_)
SumV(u) == IF u = <<>> THEN 0 ELSE u[1][1] + SumV(Tail(u))

PositiveWeights(u) == \A k \in 1..Len(u) : u[k][2] > 0

\* C14: after reset and the updates (v1, w1), ..., (vn, wn), n >= 1, with
\* positive weights the AverageMeter holds sum = v1 * w1 + ... + vn * wn, count
\* = w1 + ... + wn and avg = sum / count, the weighted mean; a meter just reset
\* has avg 0; every pass starts with a meter just reset, so the mean a train or
\* validate pass returns is the weighted mean of the batches of that pass alone.
C14_WeightedMean ==
    /\ [](LET u == trace.updates IN
          /\ (u = <<>> /\ trace.error # "ZeroDivisionError") => losses = MeterReset
          /\ (u # <<>> /\ PositiveWeights(u)) =>
                 /\ losses.sum = SumVW(u)
                 /\ losses.count = SumW(u)
                 /\ losses.avg[2] > 0
                 /\ losses.avg[1] * SumW(u) = SumVW(u) * losses.avg[2]
                 /\ losses.avg = Frac(losses.avg[1], losses.avg[2])
          /\ pc \in {"train", "validate"} => Len(u) = i /\ PositiveWeights(u)
          /\ pc = "schedule" => /\ Len(u) = NumBatches(data.n_val)
                                /\ val_loss = losses.avg)
    /\ [][Len(trace'.train) > Len(trace.train) =>
             /\ Len(trace.updates) = NumBatches(data.n_train)
             /\ train_loss' = losses.avg]_vars

\* C14 witness: the second validate pass of a run returned the mean of its
\* three batches, which differs from the mean of the three losses
C14_Witness ==
    /\ pc = "schedule" /\ epoch = 1
    /\ trace.updates = <<<<1, 2>>, <<1, 2>>, <<2, 1>>>>
    /\ val_loss = <<6, 5>>
    /\ val_loss # Frac(SumV(trace.updates), Len(trace.updates))

\* C14 witness of the meter on its own
C14_WitnessAccumulator ==
    /\ pc = "meter" /\ trace.updates = <<<<1, 2>>, <<2, 1>>>>
    /\ losses.avg = <<4, 3>>

\* C15: reset, update and reading avg never fail, for every value and every
\* weight (the weight 0 too, also in the first update after a reset): no
\* division by zero.
C15_MeterNeverFails == trace.error # "ZeroDivisionError"

\* ------------------------------------------------- the logging flags
\* C16: logging is presentation only: runs that differ in --tensorboard and
\* --tensorboard_images alone (all four combinations) and get the same batches
\* and losses go through the same states, return the same means, take the same
\* is_best decisions and write the same records; in particular no combination
\* of the two flags makes a pass fail (here: in a run whose collaborators raise
\* nothing, no pass fails).
C16_LoggingNeverFailsAPass == pc # "failed"

\* the calls on the logger with the given tag
Calls(tag) == {a \in 1..Len(trace.log) : trace.log[a].tag = tag}

\* C17 as it was stated: with cadence N = --print-freq a batch's scalar is logged
\* for batch index i only when i is a multiple of N, the images of a validate
\* pass are logged at the batch indices the scalars are logged at, and no scalar
\* is logged without --tensorboard.
C17_ScalarsAtCadence ==
    \A a \in 1..Len(trace.log) :
        /\ trace.log[a].call = "scalar" => args.tensorboard
        /\ trace.log[a].tag \in {"train_loss", "valid_loss"} =>
               trace.log[a].i % args.print_freq = 0

\* the batch indices below n that are multiples of the cadence
DueBelow(n) == {k \in 0..(n - 1) : k % args.print_freq = 0}

\* the validate batches processed so far whose index is a multiple of the cadence
ImageBatchesDone ==
    Len(trace.validate) * Cardinality(DueBelow(NumBatches(data.n_val)))
        + (IF InPass("validate") THEN Cardinality(DueBelow(i)) ELSE 0)

\* C17, amended: with --tensorboard one scalar is logged for every batch of a
\* train pass and of a validate pass, whatever the cadence N = --print-freq; N
\* governs the images alone: with --tensorboard_images (and --tensorboard) the
\* images, masks and predictions are logged for exactly the batches of the
\* validate passes whose index is a multiple of N, and never in a train pass;
\* without --tensorboard no call is made on the logger.
C17_ScalarsEveryBatch ==
    /\ ~args.tensorboard => trace.log = <<>>
    /\ args.tensorboard =>
          /\ Cardinality(Calls("train_loss")) = TrainBatchesDone
          /\ Cardinality(Calls("valid_loss")) = ValidBatchesDone
          /\ \A tag \in {"images", "masks", "preds"} :
                 Cardinality(Calls(tag)) =
                     IF args.tensorboard_images THEN ImageBatchesDone ELSE 0
    /\ \A a \in 1..Len(trace.log) :
          /\ trace.log[a].tag = "train_loss" =>
                 trace.log[a].i = CallsBefore(a, "train_loss") % NumBatches(data.n_train)
          /\ trace.log[a].tag = "valid_loss" =>
                 trace.log[a].i = CallsBefore(a, "valid_loss") % NumBatches(data.n_val)
          /\ trace.log[a].call = "image" =>
                 /\ trace.log[a].i % args.print_freq = 0
                 /\ \E b \in (a + 1)..Len(trace.log) :
                        /\ trace.log[b].tag = "valid_loss"
                        /\ trace.log[b].i = trace.log[a].i
                        /\ \A c \in (a + 1)..(b - 1) : trace.log[c].call = "image"

\* C17 witness: with --print-freq 2 and both flags a run has logged the scalar
\* of the second batch (index 1) of a train pass and of a validate pass, no
\* image for that batch, and the images of the third validate batch
C17_Witness ==
    /\ pc = "done" /\ args.tensorboard /\ args.tensorboard_images
    /\ args.print_freq = 2 /\ ~args.evaluate /\ trace.train # <<>>
    /\ \E a, b, c \in 1..Len(trace.log) :
          /\ trace.log[a].tag = "train_loss" /\ trace.log[a].i = 1
          /\ trace.log[b].tag = "valid_loss" /\ trace.log[b].i = 1
          /\ trace.log[c].tag = "images" /\ trace.log[c].i = 2
    /\ \A a \in 1..Len(trace.log) :
          trace.log[a].call = "image" => trace.log[a].i # 1

\* ----------------------------------------------------- ReduceLROnPlateau
\* C18 as it was stated (its first part): whatever validation losses the
\* scheduler is stepped with, the learning rate is never below min_lr = 1e-7.
C18_NeverBelowFloor == scheduler # <<>> => optimizer.lr >= MinLr

\* C18, amended: whatever validation losses the scheduler is stepped with, one
\* per epoch, the learning rate never increases and no step takes it below
\* min_lr = 1e-7: it is never below min_lr when --lr is at least min_lr, and a
\* --lr below min_lr is left as it is. A step reduces it only after more than
\* patience = 4 consecutive steps that did not improve on the scheduler's best
\* (by the relative threshold 1e-3); the reduced rate is the old one times 0.1,
\* or min_lr when that is lower; at min_lr no step changes it.
C18_SchedulerFloor ==
    /\ [](/\ args.lr >= MinLr => (optimizer.kind # "" => optimizer.lr >= MinLr)
          /\ args.lr < MinLr => (optimizer.kind # "" => optimizer.lr = args.lr))
    /\ [][scheduler' # scheduler /\ scheduler' # <<>> =>
            /\ optimizer'.lr <= optimizer.lr
            /\ optimizer'.lr < optimizer.lr =>
                   /\ trace'.stale > Patience
                   /\ val_loss'[1] * plateau.best[2] * ThresholdInv
                          >= plateau.best[1] * (ThresholdInv - 1) * val_loss'[2]
                   /\ optimizer'.lr * FactorInv = optimizer.lr
                          \/ (optimizer'.lr = MinLr /\ optimizer.lr < MinLr * FactorInv)
                   /\ optimizer'.lr >= MinLr
            /\ optimizer.lr = MinLr => optimizer'.lr = MinLr]_vars

\* C18 witness: started at 0.1 the learning rate has come down to min_lr and
\* stayed there through more than patience further steps without improvement
C18_Witness ==
    /\ pc = "scheduler" /\ args.lr = Lr /\ optimizer.lr = MinLr
    /\ trace.stale > 6 * (Patience + 1) + Patience + 1

\* ------------------------------------------------------ the saved records
\* the last element of a non-empty sequence
Last(seq) == seq[Len(seq)]

\* C19: within one run, fresh or resumed, the 'epoch' values written to the
\* checkpoint file go up by exactly one from save to save and each is the index
\* of the epoch just finished plus one (the first save of a resumed run writes
\* the restored 'epoch' plus one); when the run has written both files, the
\* 'epoch' of the best file is at most that of the checkpoint file.
C19_SavedEpochs ==
    /\ Consecutive(trace.saved, args.start_epoch + 1)
    /\ \A k \in 1..Len(trace.saved) :
          k <= Len(trace.validate) /\ trace.saved[k] = trace.validate[k] + 1
    /\ (Resumed /\ pc # "killed" /\ trace.saved # <<>>) =>
          trace.saved[1] = loaded.epoch + 1
    /\ (trace.saved # <<>> /\ latest.st = "full") => latest.epoch = Last(trace.saved)
    /\ (trace.best_saved # <<>> /\ best.st = "full") =>
          /\ best.epoch = Last(trace.best_saved) + 1
          /\ best.epoch \in Range(trace.saved)
          /\ latest.st = "full" => best.epoch <= latest.epoch

\* C19 witness: a run has saved 1 and 2, the best file is the record of the
\* first epoch
C19_Witness ==
    /\ pc = "done" /\ ~Resumed /\ trace.saved = <<1, 2>>
    /\ latest.st = "full" /\ latest.epoch = 2
    /\ trace.best_saved = <<0>> /\ best.st = "full" /\ best.epoch = 1

\* C19 witness of a resumed run: restored 'epoch' 1, first save 2, into both
\* files
C19_WitnessResumed ==
    /\ Resumed /\ pc = "done" /\ loaded.epoch = 1 /\ trace.saved = <<2>>
    /\ latest.epoch = 2 /\ best = latest /\ trace.best_saved = <<1>>

\* ------------------------------------------------------- best_val_loss
\* the lowest of a non-empty set of losses
Lowest(S) == CHOOSE x \in S : \A y \in S : ~Less(y, x)

\* the validation losses of the epochs of this run that main has taken into
\* best_val_loss: those of the epochs before the current one, and the current
\* one's once line 228 was executed for it
LossesTakenIn ==
    Range(trace.val_before)
        \cup (IF scheduler # <<>> /\ pc \notin {"validate", "schedule", "checkpoint"}
                  /\ ~(pc = "failed" /\ trace.at \in {"train", "validate"})
              THEN {val_loss} ELSE {})

\* the value best_val_loss has before the first epoch of the run
StartBest == IF Resumed THEN loaded.best_val_loss ELSE <<InitBestValLoss, 1>>

\* C20: at every point of a run best_val_loss is the minimum of its initial
\* value (100, or the restored value in a resumed run) and the validation losses
\* of the epochs checkpointed so far; it never increases, every record written
\* to the checkpoint file carries this minimum, and after a completed save with
\* is_best the best_val_loss of the best file is that of the checkpoint file.
C20_BestSoFarIsMinimum ==
    /\ [](pc \notin {"killed", "start", "load", "arch", "resume"} =>
            /\ best_val_loss = Lowest({StartBest} \cup LossesTakenIn)
            /\ (trace.saved # <<>> /\ latest.st = "full") =>
                   latest.best_val_loss = best_val_loss
            /\ (trace.saved # <<>> /\ is_best /\ pc \notin {"save", "copy", "copying"}) =>
                   /\ best.st = "full"
                   /\ best.best_val_loss = latest.best_val_loss
                   /\ best.best_val_loss = best_val_loss)
    /\ [][pc' \notin {"killed", "start"} => ~Less(best_val_loss, best_val_loss')]_vars

\* C20 witness: a run that restored best_val_loss 1 has checkpointed an epoch
\* with validation loss 2: the record carries 1 and the best file was not
\* written
C20_Witness ==
    /\ pc = "done" /\ Resumed /\ loaded.best_val_loss = <<1, 1>>
    /\ trace.saved # <<>> /\ val_loss = <<2, 1>> /\ ~is_best
    /\ best_val_loss = <<1, 1>> /\ latest.best_val_loss = <<1, 1>>

\* C20 witness of a fresh run: the second epoch lowered best_val_loss from 2
\* to 1 and both files carry 1
C20_WitnessFresh ==
    /\ pc = "done" /\ ~Resumed /\ trace.val_before = <<<<2, 1>>>>
    /\ val_loss = <<1, 1>> /\ is_best /\ best_val_loss = <<1, 1>>
    /\ latest.best_val_loss = <<1, 1>> /\ best = latest

====
